---- MODULE Spec2Model ----
(***************************************************************************)
(* Model of create-discord-bot's scaffolding script, src/src/index.js.     *)
(*                                                                         *)
(* One run of the script is one behaviour: the name prompt, the mode       *)
(* decision (fs.existsSync), the confirm or token prompt, the step list,   *)
(* the forEach loop over the steps, and the way the process ends.          *)
(*                                                                         *)
(* Strings that are serialised (name, token, manifest values) are          *)
(* sequences of one-character strings, so that JSON.stringify's escaping   *)
(* is modelled and not taken to be the identity.  Paths are sequences of   *)
(* path segments, relative to the resolved target directory `dir`.         *)
(***************************************************************************)
EXTENDS Naturals, Sequences, FiniteSets, TLC

(***************************************************************************)
(* Bounds of the model.                                                    *)
(***************************************************************************)
MaxNameLen == 2
MaxTokenLen == 2
MaxRejections == 2

(***************************************************************************)
(* Generic helpers.                                                        *)
(***************************************************************************)
SeqsUpTo(S, n) == UNION {[1..k -> S] : k \in 0..n}

IsPrefix(a, b) == Len(a) <= Len(b) /\ SubSeq(b, 1, Len(a)) = a

Range(s) == {s[i] : i \in DOMAIN s}

(***************************************************************************)
(* process.argv and the dry-run flag (lines 185-186).                      *)
(***************************************************************************)
ArgLists ==
    { <<>>,
      <<"--dry-run">>,
      <<"--verbose">>,
      <<"--verbose", "--dry-run">>,
      <<"--dry-run", "--verbose">> }

ProcessArgv(a) == <<"node", "index.js">> \o a

\* const [, , ...args] = process.argv
Args(pargv) == SubSeq(pargv, 3, Len(pargv))

IsDryRunLater(pargv) == "--dry-run" \in Range(Args(pargv))

\* const isDryRun = args[0] === "--dry-run"
IsDryRun(pargv) ==
    LET args == Args(pargv)
    IN  Len(args) >= 1 /\ args[1] = "--dry-run"

(***************************************************************************)
(* The name prompt and its validator (lines 68-81).                        *)
(***************************************************************************)
NameChars == {"a", "A", "."}

NameInputs == SeqsUpTo(NameChars, MaxNameLen)

\* the tool's own package.json: name and version (line 58)
ToolName == "create-discord-bot"
ToolVersion == "3.10.2"

\* utilityNameAndVersion (line 59)
UtilityNameAndVersion == <<ToolName, " v", ToolVersion>>

\* the template's manifest, app/package.json (line 57), fields of Package
AppPackage ==
    << [key |-> "name", val |-> <<"a", "p", "p">>],
       [key |-> "version", val |-> <<"1">>],
       [key |-> "description", val |-> <<"t", "\"", "d">>],
       [key |-> "main", val |-> <<"m">>] >>

Field(obj, k) ==
    LET i == CHOOSE j \in DOMAIN obj : obj[j].key = k IN obj[i].val

HasField(obj, k) == \E j \in DOMAIN obj : obj[j].key = k

\* a text prompt submits `value || initial`
PromptValue(input, initial) == IF input = <<>> THEN initial ELSE input

\* validate-npm-package-name's validForNewPackages, on the modelled alphabet:
\* not empty, no leading ".", no capital letters
ValidForNewPackagesAllowsCapitals(n) ==
    /\ Len(n) > 0
    /\ n[1] # "."

ValidForNewPackages(n) ==
    /\ Len(n) > 0
    /\ n[1] # "."
    /\ "A" \notin Range(n)

(***************************************************************************)
(* JSON.stringify(obj, null, 2) + "\n" of an object whose values are       *)
(* strings or undefined, and its inverse JSON.parse.                       *)
(***************************************************************************)
Quote == "\""
Backslash == "\\"

RECURSIVE Escape(_)
Escape(s) ==
    IF s = <<>> THEN <<>>
    ELSE (IF Head(s) \in {Quote, Backslash}
          THEN <<Backslash, Head(s)>>
          ELSE <<Head(s)>>) \o Escape(Tail(s))

RECURSIVE Unescape(_)
Unescape(s) ==
    IF s = <<>> THEN <<>>
    ELSE IF Head(s) = Backslash /\ Len(s) >= 2
         THEN <<s[2]>> \o Unescape(SubSeq(s, 3, Len(s)))
         ELSE <<Head(s)>> \o Unescape(Tail(s))

\* one pretty-printed line:   "key": "escaped value"
JsonLine(key, val) == <<"  ", Quote, key, Quote, ": ", Quote>> \o Escape(val) \o <<Quote>>

\* entries are records [key, defined, val]; undefined values are dropped
RECURSIVE JsonLines(_)
JsonLines(entries) ==
    IF entries = <<>> THEN <<>>
    ELSE (IF Head(entries).defined
          THEN <<JsonLine(Head(entries).key, Head(entries).val)>>
          ELSE <<>>) \o JsonLines(Tail(entries))

JsonStringify(entries) == <<<<"{">>>> \o JsonLines(entries) \o <<<<"}">>>>

\* the text of a file is a sequence of lines, each a sequence of strings
JsonIsObjectText(text) ==
    /\ Len(text) >= 2
    /\ text[1] = <<"{">>
    /\ text[Len(text)] = <<"}">>

JsonKeys(text) == {text[i][3] : i \in 2..(Len(text) - 1)}

JsonValue(text, k) ==
    LET i == CHOOSE j \in 2..(Len(text) - 1) : text[j][3] = k
        l == text[i]
    IN  Unescape(SubSeq(l, 7, Len(l) - 1))

(***************************************************************************)
(* The filesystem under the resolved target `dir`, and the template tree   *)
(* appDir = <tool>/app (line 53).                                          *)
(***************************************************************************)
CoreDir == <<"src", "core">>
EntryFile == <<"src", "index.js">>
ManifestFile == <<"package.json">>
TokenFile == <<"token.json">>
IgnoreFile == <<".gitignore">>
InstallMarker == <<"node_modules", ".package-lock.json">>

AllDefined(obj) == [i \in DOMAIN obj |-> [key |-> obj[i].key, defined |-> TRUE, val |-> obj[i].val]]

TemplatePaths ==
    { ManifestFile, EntryFile, <<"src", "core", "bot.js">>, <<"src", "widgets", "w.js">> }

TemplateText(p) ==
    IF p = ManifestFile THEN JsonStringify(AllDefined(AppPackage))
    ELSE << <<"template">> \o p >>

UserPaths ==
    { <<"notes.txt">>, EntryFile, <<"src", "core", "old.js">>, TokenFile }

UserText(p) == << <<"user">> \o p >>

NoFiles == [p \in {} |-> <<>>]

InitialTargets ==
    { [kind |-> "absent", files |-> NoFiles], [kind |-> "file", files |-> NoFiles] }
    \cup { [kind |-> "dir", files |-> [p \in S |-> UserText(p)]] : S \in SUBSET UserPaths }

WriteFile(files, p, text) ==
    [q \in (DOMAIN files) \cup {p} |-> IF q = p THEN text ELSE files[q]]

\* the template paths fs.copySync(`${appDir}/<sub>`, `${dir}/<sub>`) copies
CopyPathsAll(sub) == TemplatePaths

CopyPaths(sub) == {p \in TemplatePaths : IsPrefix(sub, p)}

\* the files after the paths in P were copied over
CopyOver(files, P) ==
    [q \in (DOMAIN files) \cup P |-> IF q \in P THEN TemplateText(q) ELSE files[q]]

\* "node_modules/\ntoken.json\n" (line 140)
GitignoreTextNoSecret == << <<"node_modules/">> >>

GitignoreText == << <<"node_modules/">>, <<"token.json">> >>

\* { ...appPackage, name, description } (lines 147-148)
NewPackage(n) ==
    LET description == <<"Generated by ">> \o UtilityNameAndVersion \o <<".">>
        over == [i \in DOMAIN AppPackage |->
                    [key |-> AppPackage[i].key,
                     defined |-> TRUE,
                     val |-> IF AppPackage[i].key = "name" THEN n
                             ELSE IF AppPackage[i].key = "description" THEN description
                             ELSE AppPackage[i].val]]
    IN  over
        \o (IF HasField(AppPackage, "name") THEN <<>>
            ELSE <<[key |-> "name", defined |-> TRUE, val |-> n]>>)
        \o (IF HasField(AppPackage, "description") THEN <<>>
            ELSE <<[key |-> "description", defined |-> TRUE, val |-> description]>>)

\* JSON.stringify({ token }, null, 2) (line 160); token is [defined, s]
TokenTextRaw(tok) ==
    << <<"{">>, <<"  ", Quote, "token", Quote, ": ", Quote>> \o tok.s \o <<Quote>>, <<"}">> >>

TokenText(tok) == JsonStringify(<<[key |-> "token", defined |-> tok.defined, val |-> tok.s]>>)

(***************************************************************************)
(* The token prompt (lines 120-127).                                       *)
(***************************************************************************)
TokenChars == {"x", Quote, Backslash}

TokenInputs == SeqsUpTo(TokenChars, MaxTokenLen)

TokenInitial == <<"DISCORD_BOT_TOKEN_PLACEHOLDER">>

NoToken == [defined |-> FALSE, s |-> <<>>]

(***************************************************************************)
(* getApplicationId (lines 35-49).                                         *)
(*                                                                         *)
(* A JS value is [t, v]: its type and its text.  A response of the curl    *)
(* subprocess is [exec, syntax, t, v, hasId, id]: execSync threw or not;   *)
(* the body is JSON text or not; the parsed value; and, for an object,     *)
(* whether it has an id member and that member's value.                    *)
(***************************************************************************)
JsUndefined == [t |-> "undefined", v |-> ""]
JsNull == [t |-> "null", v |-> "null"]

IdValues ==
    { JsNull,
      [t |-> "boolean", v |-> "false"],
      [t |-> "boolean", v |-> "true"],
      [t |-> "number", v |-> "0"],
      [t |-> "number", v |-> "42"],
      [t |-> "string", v |-> ""],
      [t |-> "string", v |-> "1234"] }

Truthy(x) ==
    CASE x.t = "undefined" -> FALSE
      [] x.t = "null" -> FALSE
      [] x.t = "boolean" -> x.v = "true"
      [] x.t = "number" -> x.v # "0"
      [] x.t = "string" -> x.v # ""
      [] OTHER -> TRUE

Response(exec, syntax, t, v, hasId, id) ==
    [exec |-> exec, syntax |-> syntax, t |-> t, v |-> v, hasId |-> hasId, id |-> id]

Responses ==
    { Response("throws", "none", "undefined", "", FALSE, JsUndefined),
      Response("ok", "empty", "undefined", "", FALSE, JsUndefined),
      Response("ok", "invalid", "undefined", "<html>", FALSE, JsUndefined),
      Response("ok", "json", "null", "null", FALSE, JsUndefined),
      Response("ok", "json", "boolean", "true", FALSE, JsUndefined),
      Response("ok", "json", "number", "7", FALSE, JsUndefined),
      Response("ok", "json", "string", "id", FALSE, JsUndefined),
      Response("ok", "json", "array", "[]", FALSE, JsUndefined),
      Response("ok", "json", "object", "{message}", FALSE, JsUndefined) }
    \cup { Response("ok", "json", "object", "{id}", TRUE, id) : id \in IdValues }

\* JSON.parse(response): a SyntaxError unless the body is JSON text
JsonParseThrows(r) == r.syntax # "json"

\* parsedResponse.id: a TypeError on null, undefined on a value without it
IdAccessThrows(r) == r.t = "null"

IdOf(r) == IF r.t = "object" /\ r.hasId THEN r.id ELSE JsUndefined

\* the result is [threw, ret]
GetApplicationIdNoCatch(r) ==
    IF r.exec = "throws" \/ JsonParseThrows(r) \/ IdAccessThrows(r)
    THEN [threw |-> TRUE, ret |-> JsUndefined]
    ELSE [threw |-> FALSE, ret |-> IF Truthy(IdOf(r)) THEN IdOf(r) ELSE JsNull]

GetApplicationId(r) ==
    IF r.exec = "throws" \/ JsonParseThrows(r) \/ IdAccessThrows(r)
    THEN [threw |-> FALSE, ret |-> JsNull]
    ELSE [threw |-> FALSE, ret |-> IF Truthy(IdOf(r)) THEN IdOf(r) ELSE JsNull]

(***************************************************************************)
(* The step lists (lines 110-118 and 129-182).                             *)
(***************************************************************************)
Step(message, ignoreDry, action) ==
    [message |-> message, ignoreDry |-> ignoreDry, action |-> action]

UpdateStepsWithInvite(n) ==
    << Step(<<"Updating core files in '">> \o n \o <<"'...">>, FALSE, "updateCore"),
       Step(<<"\nGenerating bot invite link...">>, TRUE, "invite") >>

UpdateSteps(n) ==
    << Step(<<"Updating core files in '">> \o n \o <<"'...">>, FALSE, "updateCore") >>

CreateStepsMkdirIgnoresDry(n) ==
    << Step(<<"Creating directory '">> \o n \o <<"'...">>, TRUE, "mkdir"),
       Step(<<"Creating boilerplate...">>, FALSE, "boilerplate"),
       Step(<<"Updating package.json...">>, FALSE, "package"),
       Step(<<"Writing token.json...">>, FALSE, "token"),
       Step(<<"Installing modules...">>, FALSE, "install"),
       Step(<<"\nGenerating bot invite link...">>, TRUE, "invite") >>

CreateStepsSecretBeforeManifest(n) ==
    << Step(<<"Creating directory '">> \o n \o <<"'...">>, FALSE, "mkdir"),
       Step(<<"Creating boilerplate...">>, FALSE, "boilerplate"),
       Step(<<"Writing token.json...">>, FALSE, "token"),
       Step(<<"Updating package.json...">>, FALSE, "package"),
       Step(<<"Installing modules...">>, FALSE, "install"),
       Step(<<"\nGenerating bot invite link...">>, TRUE, "invite") >>

CreateStepsInviteRespectsDry(n) ==
    << Step(<<"Creating directory '">> \o n \o <<"'...">>, FALSE, "mkdir"),
       Step(<<"Creating boilerplate...">>, FALSE, "boilerplate"),
       Step(<<"Updating package.json...">>, FALSE, "package"),
       Step(<<"Writing token.json...">>, FALSE, "token"),
       Step(<<"Installing modules...">>, FALSE, "install"),
       Step(<<"\nGenerating bot invite link...">>, FALSE, "invite") >>

CreateSteps(n) ==
    << Step(<<"Creating directory '">> \o n \o <<"'...">>, FALSE, "mkdir"),
       Step(<<"Creating boilerplate...">>, FALSE, "boilerplate"),
       Step(<<"Updating package.json...">>, FALSE, "package"),
       Step(<<"Writing token.json...">>, FALSE, "token"),
       Step(<<"Installing modules...">>, FALSE, "install"),
       Step(<<"\nGenerating bot invite link...">>, TRUE, "invite") >>

\* if (ignoreDry || !isDryRun) action()   (line 191)
ShouldRunAlways(step, dry) == TRUE

ShouldRun(step, dry) == step.ignoreDry \/ ~dry

\* fs.existsSync(dir) (line 90)
ExistsSyncDirOnly(t) == t.kind = "dir"

ExistsSync(t) == t.kind # "absent"

\* if (!update) ... throw "Quitting..."   (line 105); a cancelled confirm
\* leaves update undefined
ConfirmAnswers == {"yes", "no", "cancel"}

DeclinedOnlyNo(answer) == answer = "no"

Declined(answer) == answer # "yes"

(***************************************************************************)
(* State of one run.                                                       *)
(***************************************************************************)
VARIABLES
    pc,           \* position of the script
    pargv,        \* process.argv
    rejections,   \* how often the name prompt's validate refused a candidate
    name,         \* the name the prompt returned
    mode,         \* "none", "CREATE" or "UPDATE"
    update,       \* the answer to the update confirmation, "none" before it
    token,        \* the token the prompt returned, [defined, s]
    steps,        \* the built step list
    isDryRun,     \* line 186
    idx,          \* index of the step forEach is at
    target,       \* the entry at `dir`: [kind, files]
    target0,      \* the entry at `dir` when the run started
    cwd,          \* process.cwd(): "start" or "target"
    subprocs,     \* the commands execSync was called with, in order
    stdout,       \* lines printed with console.log
    stderr,       \* what console.error printed
    thrown,       \* the value the promise chain was rejected with
    exitCode,     \* the status the process ended with, once pc = "exited"
    trace,        \* what happened so far, in order: [ev, i]
    response,     \* the response getApplicationId got
    applicationId, \* what getApplicationId returned: [threw, ret]
    npmExit,      \* the exit statuses of the npm ci subprocesses, in order
    probed        \* the tokens getApplicationId was called with, in order

vars ==
    << pc, pargv, rejections, name, mode, update, token, steps, isDryRun, idx, target,
       target0, cwd, subprocs, stdout, stderr, thrown, exitCode, trace,
       response, applicationId, npmExit, probed >>

\* lines 61-66
Banner == <<"This utility will walk you through creating a ", ToolName, " application.">>

NoThrow == [type |-> "none", text |-> ""]
NoResponse == Response("none", "none", "undefined", "", FALSE, JsUndefined)
NoResult == [threw |-> FALSE, ret |-> JsUndefined]

Ev(e, i) == [ev |-> e, i |-> i]

Init ==
    /\ pc = "askName"
    /\ pargv \in {ProcessArgv(a) : a \in ArgLists}
    /\ rejections = 0
    /\ name = <<>>
    /\ mode = "none"
    /\ update = "none"
    /\ token = NoToken
    /\ steps = <<>>
    /\ isDryRun = FALSE
    /\ idx = 0
    /\ target \in InitialTargets
    /\ target0 = target
    /\ cwd = "start"
    /\ subprocs = <<>>
    /\ stdout = <<Banner>>
    /\ stderr = <<>>
    /\ thrown = NoThrow
    /\ exitCode = 0
    /\ trace = <<Ev("askName", 0)>>
    /\ response = NoResponse
    /\ applicationId = NoResult
    /\ npmExit = <<>>
    /\ probed = <<>>

(***************************************************************************)
(* The name prompt (lines 68-81).                                          *)
(***************************************************************************)
\* validate returned an error string: the prompt shows it and stays open
NameRejected ==
    /\ pc = "askName"
    /\ rejections < MaxRejections
    /\ \E input \in NameInputs :
          ~ValidForNewPackages(PromptValue(input, Field(AppPackage, "name")))
    /\ rejections' = rejections + 1
    /\ UNCHANGED << npmExit, probed, pc, pargv, name, mode, update, token, steps, isDryRun, idx, target,
                    target0, cwd, subprocs, stdout, stderr, thrown, exitCode,
                    trace, response, applicationId >>

\* the prompt was cancelled: name is undefined and path.resolve(name) throws
\* a TypeError (line 86)
NameCancelled ==
    /\ pc = "askName"
    /\ pc' = "rejected"
    /\ thrown' = [type |-> "Error", text |-> "TypeError"]
    /\ trace' = Append(trace, Ev("throw", 0))
    /\ UNCHANGED << npmExit, probed, pargv, rejections, name, mode, update, token, steps, isDryRun, idx,
                    target, target0, cwd, subprocs, stdout, stderr, exitCode,
                    response, applicationId >>

\* a valid name was submitted: lines 86-103 and 120-127, up to the await
NameSubmitted ==
    /\ pc = "askName"
    /\ \E input \in NameInputs :
          LET n == PromptValue(input, Field(AppPackage, "name"))
          IN  /\ ValidForNewPackages(n)
              /\ name' = n
    /\ IF ExistsSync(target)
       THEN /\ mode' = "UPDATE"
            /\ pc' = "askUpdate"
            /\ trace' = trace \o <<Ev("existsSync", 1), Ev("askUpdate", 0)>>
       ELSE /\ mode' = "CREATE"
            /\ pc' = "askToken"
            /\ trace' = trace \o <<Ev("existsSync", 0), Ev("askToken", 0)>>
    /\ UNCHANGED << npmExit, probed, pargv, rejections, update, token, steps, isDryRun, idx,
                    target, target0, cwd, subprocs, stdout, stderr, thrown,
                    exitCode, response, applicationId >>

(***************************************************************************)
(* The update branch (lines 96-118) and the start of the loop (185-188).   *)
(***************************************************************************)
UpdateDeclined ==
    /\ pc = "askUpdate"
    /\ \E answer \in ConfirmAnswers :
          /\ Declined(answer)
          /\ update' = answer
    /\ stdout' = Append(stdout, <<>>)
    /\ thrown' = [type |-> "string", text |-> "Quitting..."]
    /\ pc' = "rejected"
    /\ trace' = trace \o <<Ev("declined", 0), Ev("throw", 0)>>
    /\ UNCHANGED << npmExit, probed, pargv, rejections, name, mode, token, steps, isDryRun, idx,
                    target, target0, cwd, subprocs, stderr, exitCode, response,
                    applicationId >>

UpdateConfirmed ==
    /\ pc = "askUpdate"
    /\ \E answer \in ConfirmAnswers :
          /\ ~Declined(answer)
          /\ update' = answer
    /\ steps' = UpdateSteps(name)
    /\ isDryRun' = IsDryRun(pargv)
    /\ stdout' = Append(stdout, <<>>)
    /\ idx' = 1
    /\ pc' = "message"
    /\ trace' = trace \o <<Ev("confirmed", 0), Ev("build", 0)>>
    /\ UNCHANGED << npmExit, probed, pargv, rejections, name, mode, token, target, target0, cwd,
                    subprocs, stderr, thrown, exitCode, response, applicationId >>

(***************************************************************************)
(* The create branch (lines 119-183) and the start of the loop (185-188).  *)
(***************************************************************************)
TokenAnswered ==
    /\ pc = "askToken"
    /\ \/ \E input \in TokenInputs :
             token' = [defined |-> TRUE, s |-> PromptValue(input, TokenInitial)]
       \/ token' = NoToken
    /\ steps' = CreateSteps(name)
    /\ isDryRun' = IsDryRun(pargv)
    /\ stdout' = Append(stdout, <<>>)
    /\ idx' = 1
    /\ pc' = "message"
    /\ trace' = trace \o <<Ev("build", 0)>>
    /\ UNCHANGED << npmExit, probed, pargv, rejections, name, mode, update, target, target0,
                    cwd, subprocs, stderr, thrown, exitCode, response,
                    applicationId >>

(***************************************************************************)
(* Filesystem calls on the target; each one may also fail (EACCES, ENOSPC) *)
(* whatever the state, which the actions model as a choice.                *)
(***************************************************************************)
\* fs.mkdirSync(dir) succeeds only where nothing exists
CanMkdir(t) == t.kind = "absent"

\* fs.copySync creates missing directories, but cannot copy below a file
CanCopy(t) == t.kind # "file"

\* fs.writeFileSync needs the directory
CanWrite(t) == t.kind = "dir"

\* process.chdir(dir) needs a directory
CanChdir(t) == t.kind = "dir"

Copied(t, P) ==
    [kind |-> IF P = {} THEN t.kind ELSE "dir", files |-> CopyOver(t.files, P)]

Written(t, p, text) == [kind |-> t.kind, files |-> WriteFile(t.files, p, text)]

(***************************************************************************)
(* steps.forEach (lines 189-194).                                          *)
(***************************************************************************)
AtStep(a) ==
    /\ pc = "action"
    /\ steps[idx].action = a
    /\ ShouldRun(steps[idx], isDryRun)

\* the action returned: forEach goes on to the next step
Returned == /\ pc' = "message"
            /\ idx' = idx + 1
            /\ thrown' = thrown
            /\ trace' = Append(trace, Ev("action", idx))

ThrewSwallowed(text) ==
    /\ pc' = "message"
    /\ idx' = idx + 1
    /\ thrown' = [type |-> "Error", text |-> text]
    /\ trace' = trace \o <<Ev("action", idx), Ev("throw", idx)>>

\* the action threw: forEach and the async function end with the error
Threw(text) == /\ pc' = "rejected"
               /\ idx' = idx
               /\ thrown' = [type |-> "Error", text |-> text]
               /\ trace' = trace \o <<Ev("action", idx), Ev("throw", idx)>>

\* console.log(message)
PrintMessage ==
    /\ pc = "message"
    /\ idx <= Len(steps)
    /\ stdout' = Append(stdout, steps[idx].message)
    /\ trace' = Append(trace, Ev("message", idx))
    /\ pc' = "action"
    /\ UNCHANGED << npmExit, probed, pargv, rejections, name, mode, update, token, steps, isDryRun, idx,
                    target, target0, cwd, subprocs, stderr, thrown, exitCode,
                    response, applicationId >>

\* the condition of line 191 is false
SkipAction ==
    /\ pc = "action"
    /\ ~ShouldRun(steps[idx], isDryRun)
    /\ pc' = "message"
    /\ idx' = idx + 1
    /\ trace' = Append(trace, Ev("skip", idx))
    /\ UNCHANGED << npmExit, probed, pargv, rejections, name, mode, update, token, steps, isDryRun,
                    target, target0, cwd, subprocs, stdout, stderr, thrown,
                    exitCode, response, applicationId >>

\* line 132
Mkdir ==
    /\ AtStep("mkdir")
    /\ \/ /\ CanMkdir(target)
          /\ target' = [kind |-> "dir", files |-> NoFiles]
          /\ Returned
       \/ /\ target' = target
          /\ Threw("mkdirSync")
    /\ UNCHANGED << npmExit, probed, pargv, rejections, name, mode, update, token, steps, isDryRun,
                    target0, cwd, subprocs, stdout, stderr, exitCode, response,
                    applicationId >>

\* lines 136-142
Boilerplate ==
    /\ AtStep("boilerplate")
    /\ \/ /\ CanCopy(target)
          /\ CanWrite(Copied(target, CopyPaths(<<>>)))
          /\ target' = Written(Copied(target, CopyPaths(<<>>)), IgnoreFile, GitignoreText)
          /\ Returned
       \/ /\ CanCopy(target)
          /\ target' = Copied(target, CopyPaths(<<>>))
          /\ Threw("writeFileSync")
       \/ /\ \E P \in SUBSET CopyPaths(<<>>) :
                /\ P # CopyPaths(<<>>)
                /\ P # {} => CanCopy(target)
                /\ target' = Copied(target, P)
          /\ Threw("copySync")
    /\ UNCHANGED << npmExit, probed, pargv, rejections, name, mode, update, token, steps, isDryRun,
                    target0, cwd, subprocs, stdout, stderr, exitCode, response,
                    applicationId >>

\* lines 146-153
WritePackage ==
    /\ AtStep("package")
    /\ \/ /\ CanWrite(target)
          /\ target' = Written(target, ManifestFile, JsonStringify(NewPackage(name)))
          /\ Returned
       \/ /\ target' = target
          /\ Threw("writeFileSync")
    /\ UNCHANGED << npmExit, probed, pargv, rejections, name, mode, update, token, steps, isDryRun,
                    target0, cwd, subprocs, stdout, stderr, exitCode, response,
                    applicationId >>

\* lines 157-161
WriteToken ==
    /\ AtStep("token")
    /\ \/ /\ CanWrite(target)
          /\ target' = Written(target, TokenFile, TokenText(token))
          /\ Returned
       \/ /\ target' = target
          /\ Threw("writeFileSync")
    /\ UNCHANGED << npmExit, probed, pargv, rejections, name, mode, update, token, steps, isDryRun,
                    target0, cwd, subprocs, stdout, stderr, exitCode, response,
                    applicationId >>

\* the exit statuses of a subprocess
ExitStatuses == {0, 1}

ExecSyncNeverThrows(status) == FALSE

\* execSync throws when the command exits with a status other than 0
ExecSyncThrows(status) == status # 0

\* lines 165-168
Install ==
    /\ AtStep("install")
    /\ \/ /\ CanChdir(target)
          /\ cwd' = "target"
          /\ subprocs' = Append(subprocs, "npm ci")
          /\ \E status \in ExitStatuses :
                /\ npmExit' = Append(npmExit, status)
                /\ IF ExecSyncThrows(status)
                   THEN /\ target' = target
                        /\ Threw("npm ci")
                   ELSE /\ target' = Written(target, InstallMarker, <<<<"npm">>>>)
                        /\ Returned
       \/ /\ UNCHANGED << cwd, subprocs, target, npmExit >>
          /\ Threw("chdir")
    /\ UNCHANGED << probed, pargv, rejections, name, mode, update, token, steps,
                    isDryRun, target0, stdout, stderr, exitCode, response,
                    applicationId >>

\* lines 173-180
InviteLink ==
    /\ AtStep("invite")
    /\ probed' = Append(probed, token)
    /\ \E r \in Responses :
          /\ response' = r
          /\ applicationId' = GetApplicationId(r)
          /\ subprocs' = Append(subprocs, "curl")
          /\ IF GetApplicationId(r).threw
             THEN /\ stdout' = stdout
                  /\ Threw("getApplicationId")
             ELSE /\ stdout' = Append(stdout,
                        IF Truthy(GetApplicationId(r).ret)
                        THEN <<"Invite your bot: ", GetApplicationId(r).ret.v>>
                        ELSE <<"The given bot token was invalid so no link was generated.">>)
                  /\ Returned
    /\ UNCHANGED << npmExit, pargv, rejections, name, mode, update, token, steps,
                    isDryRun, target, target0, cwd, stderr, exitCode >>

\* lines 113-116
UpdateCore ==
    /\ AtStep("updateCore")
    /\ \/ /\ CanCopy(target)
          /\ target' = Copied(target, CopyPaths(CoreDir) \cup CopyPaths(EntryFile))
          /\ Returned
       \/ /\ CanCopy(target)
          /\ target' = Copied(target, CopyPaths(CoreDir))
          /\ Threw("copySync index.js")
       \/ /\ \E P \in SUBSET CopyPaths(CoreDir) :
                /\ P # CopyPaths(CoreDir)
                /\ P # {} => CanCopy(target)
                /\ target' = Copied(target, P)
          /\ Threw("copySync core")
    /\ UNCHANGED << npmExit, probed, pargv, rejections, name, mode, update, token, steps, isDryRun,
                    target0, cwd, subprocs, stdout, stderr, exitCode, response,
                    applicationId >>

DoneMessage == <<"Done!\n\nStart by running:\n\t$ cd ">> \o name \o <<"/\n\t$ npm start">>

\* lines 196-198
Finish ==
    /\ pc = "message"
    /\ idx > Len(steps)
    /\ stdout' = stdout \o << <<>>, DoneMessage >>
    /\ exitCode' = 0
    /\ pc' = "exited"
    /\ trace' = Append(trace, Ev("done", 0))
    /\ UNCHANGED << npmExit, probed, pargv, rejections, name, mode, update, token, steps, isDryRun, idx,
                    target, target0, cwd, subprocs, stderr, thrown, response,
                    applicationId >>

\* .catch(console.error) (line 200): a string is printed as it is, an Error
\* with its stack
Catch ==
    /\ pc = "rejected"
    /\ stderr' = Append(stderr,
                    IF thrown.type = "string" THEN <<thrown.text>>
                    ELSE <<thrown.text, "    at stack">>)
    /\ pc' = "caught"
    /\ trace' = Append(trace, Ev("catch", 0))
    /\ UNCHANGED << npmExit, probed, pargv, rejections, name, mode, update, token, steps, isDryRun, idx,
                    target, target0, cwd, subprocs, stdout, thrown, exitCode,
                    response, applicationId >>

\* the handler of line 200 returned and nothing is pending: node ends the
\* process with process.exitCode, which the script never sets
ProcessEnd ==
    /\ pc = "caught"
    /\ exitCode' = 0
    /\ pc' = "exited"
    /\ trace' = Append(trace, Ev("end", 0))
    /\ UNCHANGED << npmExit, probed, pargv, rejections, name, mode, update, token, steps, isDryRun, idx,
                    target, target0, cwd, subprocs, stdout, stderr, thrown,
                    response, applicationId >>

Next ==
    \/ NameRejected
    \/ NameCancelled
    \/ NameSubmitted
    \/ UpdateDeclined
    \/ UpdateConfirmed
    \/ TokenAnswered
    \/ PrintMessage
    \/ SkipAction
    \/ Mkdir
    \/ Boilerplate
    \/ WritePackage
    \/ WriteToken
    \/ Install
    \/ InviteLink
    \/ UpdateCore
    \/ Finish
    \/ Catch
    \/ ProcessEnd

Spec == Init /\ [][Next]_vars

(***************************************************************************)
(* Vocabulary of the properties.                                           *)
(***************************************************************************)
IsLoopEv(e) == e.ev \in {"message", "action", "skip"}

\* what forEach did so far, in order
LoopEvents == SelectSeq(trace, IsLoopEv)

Happened(e, i) == Ev(e, i) \in Range(trace)

Completed == pc = "exited" /\ Happened("done", 0)

FlagIsFirstArgument == Len(pargv) >= 3 /\ pargv[3] = "--dry-run"

InCoreOrEntry(p) == IsPrefix(CoreDir, p) \/ p = EntryFile

StepFailed == \E k \in DOMAIN trace : trace[k].ev = "throw" /\ trace[k].i >= 1

UpdateWasDeclined == update \in {"no", "cancel"}

(***************************************************************************)
(* C1.  Step execution policy: the loop visits the steps in list order;    *)
(* for each visited step its message is printed before its action, and the *)
(* action is executed if and only if dryRun is false or the step is marked *)
(* ignoreDry (otherwise it is skipped).                                    *)
(***************************************************************************)
C1_StepExecutionPolicy ==
    LET L == LoopEvents
    IN  /\ \A k \in DOMAIN L :
              LET j == (k + 1) \div 2
              IN  /\ j <= Len(steps)
                  /\ L[k].i = j
                  /\ (k % 2 = 1) => L[k].ev = "message"
                  /\ (k % 2 = 0) =>
                        L[k].ev = (IF ~isDryRun \/ steps[j].ignoreDry
                                   THEN "action" ELSE "skip")
        /\ \A k \in DOMAIN L :
              L[k].ev = "message" => steps[L[k].i].message \in Range(stdout)

C1_Witness ==
    /\ Completed
    /\ isDryRun
    /\ mode = "CREATE"
    /\ Len(LoopEvents) = 2 * Len(steps)
    /\ Happened("skip", 1)
    /\ Happened("action", 6)

(***************************************************************************)
(* C2.  Dry-run property: under dryRun the target, the working directory   *)
(* and the subprocess invocations differ from the start of the run only by *)
(* effects of steps marked ignoreDry: no directory is created, no file is  *)
(* written, no chdir happens, npm ci is not invoked; and a dry run that    *)
(* ended has printed every step's message.                                 *)
(***************************************************************************)
C2_DryRunFrame ==
    isDryRun =>
        /\ target = target0
        /\ cwd = "start"
        /\ "npm ci" \notin Range(subprocs)
        /\ \A k \in DOMAIN trace :
              trace[k].ev = "action" => steps[trace[k].i].ignoreDry
        /\ Len(subprocs) <= Cardinality({k \in DOMAIN trace : trace[k].ev = "action"})
        /\ pc = "exited" => \A j \in DOMAIN steps : steps[j].message \in Range(stdout)

C2_Witness ==
    /\ isDryRun
    /\ mode = "CREATE"
    /\ pc = "exited"
    /\ subprocs = <<"curl">>
    /\ Len(stdout) = 11

(***************************************************************************)
(* C3.  Declined update: when the target exists and the confirmation is    *)
(* negative or cancelled, no step message is printed, no step action is    *)
(* executed, the target is unchanged, and the abort is printed by the      *)
(* top-level handler as the plain text "Quitting...".                      *)
(***************************************************************************)
C3_DeclinedUpdate ==
    UpdateWasDeclined =>
        /\ target0.kind # "absent"
        /\ steps = <<>>
        /\ LoopEvents = <<>>
        /\ stdout = <<Banner, <<>>>>
        /\ target = target0
        /\ cwd = "start"
        /\ subprocs = <<>>
        /\ thrown = [type |-> "string", text |-> "Quitting..."]
        /\ pc \in {"rejected", "caught", "exited"}
        /\ pc \in {"caught", "exited"} => stderr = << <<"Quitting...">> >>

C3_Witness ==
    /\ update = "cancel"
    /\ pc = "exited"
    /\ DOMAIN target0.files = UserPaths
    /\ stderr = << <<"Quitting...">> >>

(***************************************************************************)
(* C4.  getApplicationId never raises: for every response of the remote    *)
(* call it returns null, except that it returns the id when the response   *)
(* parses to a JSON object with a truthy id member.                        *)
(***************************************************************************)
IdentifiedResponse(r) ==
    /\ r.exec = "ok"
    /\ r.syntax = "json"
    /\ r.t = "object"
    /\ r.hasId
    /\ Truthy(r.id)

C4_ProbeTotal ==
    response # NoResponse =>
        /\ ~applicationId.threw
        /\ thrown.text # "getApplicationId"
        /\ ~Happened("throw", 6)
        /\ IF IdentifiedResponse(response)
           THEN applicationId.ret = response.id
           ELSE applicationId.ret = JsNull

C4_Witness ==
    /\ response.exec = "ok"
    /\ response.t = "null"
    /\ applicationId = [threw |-> FALSE, ret |-> JsNull]
    /\ Completed

(***************************************************************************)
(* C5.  Failure is fatal and ordered: once the action of a step has thrown *)
(* no later step has its message printed or its action executed, the       *)
(* success message is not printed, and the error reaches the top-level     *)
(* handler, which prints it.                                               *)
(***************************************************************************)
C5_FailureIsFatal ==
    \A k \in DOMAIN trace :
        (trace[k].ev = "throw" /\ trace[k].i >= 1) =>
            /\ \A m \in (k + 1)..Len(trace) :
                  trace[m].ev \notin {"message", "action", "skip", "done"}
            /\ \A j \in DOMAIN steps :
                  j > trace[k].i => steps[j].message \notin Range(stdout)
            /\ DoneMessage \notin Range(stdout)
            /\ pc \in {"rejected", "caught", "exited"}
            /\ thrown.type = "Error"
            /\ pc \in {"caught", "exited"} => stderr = << <<thrown.text, "    at stack">> >>

C5_Witness ==
    /\ Happened("throw", 3)
    /\ pc = "exited"
    /\ stderr # <<>>

(***************************************************************************)
(* C6.  Exit status: a run whose steps all complete ends with status 0; a  *)
(* run that ends because the update was declined or a step failed ends     *)
(* with a printed diagnostic and a status other than 0.                    *)
(***************************************************************************)
C6_ExitStatus ==
    pc = "exited" =>
        /\ Happened("done", 0) => exitCode = 0
        /\ (UpdateWasDeclined \/ StepFailed) => (stderr # <<>> /\ exitCode # 0)

(***************************************************************************)
(* C7.  UPDATE-mode frame: in UPDATE mode every file of the target outside *)
(* src/core and src/index.js stays as it was, and no file outside them is  *)
(* created (so no manifest, secret file or ignore-file is written).        *)
(***************************************************************************)
C7_UpdateFrame ==
    mode = "UPDATE" =>
        /\ target.kind = target0.kind
        /\ \A p \in DOMAIN target0.files :
              ~InCoreOrEntry(p) =>
                  p \in DOMAIN target.files /\ target.files[p] = target0.files[p]
        /\ \A p \in DOMAIN target.files :
              ~InCoreOrEntry(p) => p \in DOMAIN target0.files

C7_Witness ==
    /\ mode = "UPDATE"
    /\ ~isDryRun
    /\ Completed
    /\ DOMAIN target0.files = UserPaths
    /\ target.files[EntryFile] = TemplateText(EntryFile)
    /\ target.files[TokenFile] = UserText(TokenFile)
    /\ ManifestFile \notin DOMAIN target.files

(***************************************************************************)
(* C8.  CREATE-mode postcondition: after a non-dry CREATE run in which no  *)
(* step failed and the prompt returned a credential, the target directory  *)
(* exists, the manifest has the template's members with name = the chosen  *)
(* name and description = the attribution, the secret file parses to the   *)
(* single member token = the credential, and the ignore-file lists the     *)
(* install directory and the secret file's name.                           *)
(***************************************************************************)
C8_CreatePostcondition ==
    (mode = "CREATE" /\ ~isDryRun /\ Completed /\ token.defined) =>
        /\ target.kind = "dir"
        /\ {ManifestFile, TokenFile, IgnoreFile} \subseteq DOMAIN target.files
        /\ LET manifest == target.files[ManifestFile]
           IN  /\ JsonIsObjectText(manifest)
               /\ JsonKeys(manifest) = {AppPackage[i].key : i \in DOMAIN AppPackage}
               /\ JsonValue(manifest, "name") = name
               /\ JsonValue(manifest, "description")
                     = <<"Generated by ", ToolName, " v", ToolVersion, ".">>
               /\ \A k \in JsonKeys(manifest) \ {"name", "description"} :
                     JsonValue(manifest, k) = Field(AppPackage, k)
        /\ LET secret == target.files[TokenFile]
           IN  /\ JsonIsObjectText(secret)
               /\ JsonKeys(secret) = {"token"}
               /\ JsonValue(secret, "token") = token.s
        /\ <<"node_modules/">> \in Range(target.files[IgnoreFile])
        /\ TokenFile \in Range(target.files[IgnoreFile])

C8_Witness ==
    /\ mode = "CREATE"
    /\ ~isDryRun
    /\ Completed
    /\ token = [defined |-> TRUE, s |-> <<Backslash, Quote>>]
    /\ name = <<"a", ".">>
    /\ TokenFile \in DOMAIN target.files

(***************************************************************************)
(* C9.  Mode resolution: the mode is CREATE exactly when the target did    *)
(* not exist; in CREATE mode the step list is built without any update     *)
(* confirmation; in UPDATE mode no step is built, printed or executed      *)
(* unless the confirmation was answered yes.                               *)
(***************************************************************************)
C9_ModeResolution ==
    /\ mode = "none" => (steps = <<>> /\ LoopEvents = <<>>)
    /\ mode # "none" => (mode = "CREATE" <=> target0.kind = "absent")
    /\ mode = "CREATE" =>
          /\ update = "none"
          /\ ~Happened("askUpdate", 0)
          /\ pc # "askToken" => Len(steps) = 6
    /\ mode = "UPDATE" =>
          /\ Happened("askUpdate", 0)
          /\ (steps # <<>> \/ LoopEvents # <<>> \/ target # target0) => update = "yes"

C9_Witness ==
    /\ mode = "UPDATE"
    /\ target0.kind = "file"
    /\ update = "yes"
    /\ Len(LoopEvents) = 2

(***************************************************************************)
(* C10.  Dry-run flag: dryRun is true exactly when the first command-line  *)
(* argument is --dry-run; otherwise (no argument, another first argument,  *)
(* the flag in a later position) no step action is skipped.                *)
(***************************************************************************)
C10_DryRunFlag ==
    steps # <<>> =>
        /\ isDryRun <=> FlagIsFirstArgument
        /\ ~FlagIsFirstArgument => \A k \in DOMAIN trace : trace[k].ev # "skip"
        /\ FlagIsFirstArgument =>
              \A k \in DOMAIN trace :
                  trace[k].ev = "action" => steps[trace[k].i].ignoreDry

C10_Witness ==
    /\ pargv = <<"node", "index.js", "--verbose", "--dry-run">>
    /\ mode = "CREATE"
    /\ Completed
    /\ target.kind = "dir"
    /\ ~isDryRun

(***************************************************************************)
(* C11.  CREATE step catalog, as claimed: the list built for CREATE mode   *)
(* has exactly 5 steps.                                                    *)
(***************************************************************************)
C11_ExactlyFiveSteps ==
    (mode = "CREATE" /\ steps # <<>>) => Len(steps) = 5

(***************************************************************************)
(* C11, amended.  The list built for CREATE mode has exactly 6 steps, in   *)
(* strict order: create directory, copy template and write ignore-file,    *)
(* write manifest, write secret file, install, generate invite link; only  *)
(* the last is marked ignoreDry; and the list, once built, never changes.  *)
(***************************************************************************)
CreateCatalog ==
    (mode = "CREATE" /\ steps # <<>>) =>
        /\ [j \in DOMAIN steps |-> steps[j].action]
              = <<"mkdir", "boilerplate", "package", "token", "install", "invite">>
        /\ [j \in DOMAIN steps |-> steps[j].ignoreDry]
              = <<FALSE, FALSE, FALSE, FALSE, FALSE, TRUE>>
        /\ idx \in 1..(Len(steps) + 1)

C11_CreateCatalog ==
    /\ []CreateCatalog
    /\ [][steps # <<>> => steps' = steps]_vars

C11_Witness ==
    /\ mode = "CREATE"
    /\ Completed
    /\ Len(steps) = 6
    /\ Len(LoopEvents) = 12

(***************************************************************************)
(* C12.  Install exit status, as claimed: in a non-dry CREATE run in which *)
(* npm ci exited with a status other than 0, the run goes on to the        *)
(* invite-link step, prints the success message and exits 0.               *)
(***************************************************************************)
NpmFailed == \E k \in DOMAIN npmExit : npmExit[k] # 0

C12_InstallStatusIgnored ==
    (mode = "CREATE" /\ ~isDryRun /\ NpmFailed /\ pc = "exited") =>
        /\ Happened("action", 6)
        /\ DoneMessage \in Range(stdout)
        /\ exitCode = 0

(***************************************************************************)
(* C12, amended.  The install exit status is not ignored: in a non-dry     *)
(* CREATE run, when npm ci exits with a status other than 0 the install    *)
(* step throws; the invite-link step is not reached (neither its message   *)
(* nor its action), the success message is not printed, and the error is   *)
(* printed by the top-level handler.                                       *)
(***************************************************************************)
C12_InstallFailureIsFatal ==
    (mode = "CREATE" /\ NpmFailed) =>
        /\ ~isDryRun
        /\ Happened("throw", 5)
        /\ thrown = [type |-> "Error", text |-> "npm ci"]
        /\ ~Happened("message", 6)
        /\ ~Happened("action", 6)
        /\ probed = <<>>
        /\ DoneMessage \notin Range(stdout)
        /\ pc \in {"rejected", "caught", "exited"}
        /\ pc = "exited" => stderr = << <<"npm ci", "    at stack">> >>

C12_Witness ==
    /\ mode = "CREATE"
    /\ npmExit = <<1>>
    /\ pc = "exited"
    /\ cwd = "target"
    /\ TokenFile \in DOMAIN target.files

(***************************************************************************)
(* C13.  Invite-link step: in CREATE mode the invite-link step is never    *)
(* skipped: whenever the loop reaches it, and in every dry run, its action *)
(* executes; it calls getApplicationId once, with the token the prompt     *)
(* returned; it prints exactly one of the two messages, the link when an   *)
(* id came back and the invalid-token message otherwise; and the run then  *)
(* completes normally in both cases.                                       *)
(***************************************************************************)
InvalidTokenLine == <<"The given bot token was invalid so no link was generated.">>

IsLinkLine(l) == Len(l) = 2 /\ l[1] = "Invite your bot: "

InviteLines == {k \in DOMAIN stdout : stdout[k] = InvalidTokenLine \/ IsLinkLine(stdout[k])}

C13_InviteLinkStep ==
    mode = "CREATE" =>
        /\ ~Happened("skip", 6)
        /\ (isDryRun /\ pc = "exited") => Happened("action", 6)
        /\ (Happened("message", 6) /\ pc = "exited") => Happened("action", 6)
        /\ ~Happened("action", 6) => (probed = <<>> /\ InviteLines = {})
        /\ Happened("action", 6) =>
              /\ probed = <<token>>
              /\ subprocs[Len(subprocs)] = "curl"
              /\ Cardinality(InviteLines) = 1
              /\ IF IdentifiedResponse(response)
                 THEN <<"Invite your bot: ", response.id.v>> \in Range(stdout)
                 ELSE InvalidTokenLine \in Range(stdout)
              /\ ~Happened("throw", 6)
              /\ thrown = NoThrow
              /\ pc = "exited" => (Completed /\ exitCode = 0 /\ stderr = <<>>)

C13_Witness ==
    /\ mode = "CREATE"
    /\ isDryRun
    /\ Completed
    /\ token = [defined |-> TRUE, s |-> <<"x">>]
    /\ probed = <<token>>
    /\ <<"Invite your bot: ", "1234">> \in Range(stdout)

(***************************************************************************)
(* C14.  Secret-file ordering: in every state of a CREATE run in which     *)
(* token.json is in the target, the target directory was created by this   *)
(* run (it did not exist before, and step 1 ran) and the ignore-file that  *)
(* lists token.json is already there; also after a later step failed.      *)
(***************************************************************************)
C14_SecretAfterIgnore ==
    (mode = "CREATE" /\ TokenFile \in DOMAIN target.files) =>
        /\ target0.kind = "absent"
        /\ target.kind = "dir"
        /\ Happened("action", 1)
        /\ Happened("action", 2)
        /\ ~Happened("throw", 2)
        /\ IgnoreFile \in DOMAIN target.files
        /\ TokenFile \in Range(target.files[IgnoreFile])
        /\ target.files[TokenFile] = TokenText(token)

C14_Witness ==
    /\ mode = "CREATE"
    /\ TokenFile \in DOMAIN target.files
    /\ Happened("throw", 5)
    /\ pc = "exited"

(***************************************************************************)
(* C15.  Name gate: nothing happens before the name prompt has returned a  *)
(* name the validator accepts: while the prompt is open (also after it     *)
(* refused candidates) no mode is resolved, no other prompt is asked, no   *)
(* step is built, nothing is thrown and the target is untouched; and once  *)
(* any of these has happened the name is a valid one.                      *)
(***************************************************************************)
NothingHappened ==
    /\ mode = "none"
    /\ update = "none"
    /\ token = NoToken
    /\ steps = <<>>
    /\ trace = <<Ev("askName", 0)>>
    /\ target = target0
    /\ cwd = "start"
    /\ subprocs = <<>>
    /\ stdout = <<Banner>>
    /\ stderr = <<>>
    /\ thrown = NoThrow

NameIsValid == Len(name) > 0 /\ name[1] # "." /\ "A" \notin Range(name)

C15_NameGate ==
    /\ pc = "askName" => NothingHappened
    /\ (\/ mode # "none"
        \/ steps # <<>>
        \/ target # target0
        \/ subprocs # <<>>
        \/ Happened("existsSync", 0)
        \/ Happened("existsSync", 1)
        \/ Happened("askUpdate", 0)
        \/ Happened("askToken", 0)) => NameIsValid

C15_Witness ==
    /\ rejections = MaxRejections
    /\ mode = "CREATE"
    /\ Completed
    /\ ~isDryRun
    /\ name = <<"a", ".">>

(***************************************************************************)
(* C16.  UPDATE mode never touches the credential: in UPDATE mode no token *)
(* is prompted for and getApplicationId is never called; a confirmed dry   *)
(* run executes no action, yet prints the step message and the success     *)
(* message and exits 0.                                                    *)
(***************************************************************************)
C16_UpdateWithoutCredential ==
    mode = "UPDATE" =>
        /\ token = NoToken
        /\ ~Happened("askToken", 0)
        /\ probed = <<>>
        /\ response = NoResponse
        /\ "curl" \notin Range(subprocs)
        /\ Len(steps) <= 1
        /\ (isDryRun /\ pc = "exited") =>
              /\ \A k \in DOMAIN trace : trace[k].ev # "action"
              /\ target = target0
              /\ subprocs = <<>>
              /\ stdout = << Banner, <<>>,
                             <<"Updating core files in '">> \o name \o <<"'...">>,
                             <<>>, DoneMessage >>
              /\ stderr = <<>>
              /\ exitCode = 0

C16_Witness ==
    /\ mode = "UPDATE"
    /\ update = "yes"
    /\ isDryRun
    /\ Completed
    /\ DOMAIN target0.files = UserPaths

====
